---- MODULE Spec2Model ----
(***************************************************************************)
(* Model of the mongodb-dumper backup pipeline: the scheduler of           *)
(* cmd/dumper/main.go, the orchestrator Dumper.Dump with compressFile,      *)
(* MongoDumper.CreateDump and S3Client.UploadFile.                          *)
(***************************************************************************)
EXTENDS Naturals, Integers, Sequences, FiniteSets, TLC

\* ---------------------------------------------------------------- bounds
\* number of ticker firings explored
MaxTicks == 2
\* largest value of the -interval flag explored (0 means "not given")
MaxInterval == 1
\* largest number of regular files mongodump leaves in the dump directory
MaxFiles == 2

VARIABLES
  \* ---- cmd/dumper/main.go: main
  oneTime,        \* the -one-time flag
  interval,       \* the -interval flag
  mpc,            \* position of main
  ctx,            \* TRUE once cancel() has been called
  tickCh,         \* number of ticks buffered in ticker.C (capacity 1)
  ticksFired,     \* ticks the ticker produced
  ticksReceived,  \* ticks the select loop received from ticker.C
  runsStarted,    \* calls of dumper.Dump
  inFlight,       \* calls of dumper.Dump that have not returned
  lastOutcome,    \* value the most recent finished Dump call returned
  \* ---- Dumper.Dump
  dpc,            \* position of Dumper.Dump
  stageLog,       \* stages started in the current run, in order
  active,         \* stages started and not yet finished
  finished,       \* stages that have finished in the current run
  failed,         \* stages that finished with an error
  retVal,         \* value Dumper.Dump returns
  dirExists,      \* localBackupPath exists on disk
  zipExists,      \* compressedPath exists on disk
  attempted,      \* removals attempted in the current run
  rmFailed,       \* removals that failed in the current run
  \* ---- MongoDumper.CreateDump
  cpc,            \* position of CreateDump
  proc,           \* state of the mongodump subprocess
  reader,         \* state of the stdout goroutine
  pipesClosed,    \* cmd.Wait has closed the parent's pipe ends
  waitErr,        \* value cmd.Wait returned
  cerr,           \* value CreateDump returns
  \* ---- compressFile
  filesLeft,      \* files the walk has not visited yet
  filesArchived,  \* entries written to the container
  zerr,           \* value compressFile returns
  \* ---- S3Client.UploadFile
  uerr,           \* value UploadFile returns
  \* ---- observation of the run (history)
  dirCreated,     \* CreateDump created localBackupPath in this run
  cancelInWait,   \* ctx was cancelled while cmd.Wait waited on a live subprocess
  cancelInArchive, \* ctx was cancelled while compressFile had files left to copy
  \* ---- the components checked on their own (each a record; [pc |-> "off"]
  \*      while another specification runs)
  cd,             \* MongoDumper.CreateDump: the subprocess, its two pipes and readers
  pr,             \* the progress loggers: the stdout parser and progressReader
  nm,             \* the naming functions: mongodump arguments and backup names
  zf,             \* compressFile and the compression statistics of Dumper.Dump
  lb              \* S3Client.ListBackups

schedVars == <<oneTime, interval, mpc, tickCh, ticksFired, ticksReceived,
               runsStarted, inFlight, lastOutcome>>
runVars   == <<dpc, stageLog, active, finished, failed, retVal>>
fsVars    == <<dirExists, zipExists, attempted, rmFailed, dirCreated>>
dumpVars  == <<cpc, proc, reader, pipesClosed, waitErr, cerr>>
zipVars   == <<filesLeft, filesArchived, zerr>>
obsVars   == <<cancelInWait, cancelInArchive>>
auxVars   == <<cd, pr, nm, zf, lb>>
vars == <<schedVars, ctx, runVars, fsVars, dumpVars, zipVars, uerr, obsVars,
          auxVars>>

\* the value of a component that is not running
Off == [pc |-> "off"]

\* the four stages of a run, in the order Dumper.Dump executes them
StageOrder == <<"Dump", "Archive", "Upload", "Cleanup">>

\* main.go:135  isOneTime := *oneTime || *interval == 0
IsOneTime_Conj(flag, ival) == flag /\ ival = 0
IsOneTime(flag, ival) == flag \/ ival = 0

\* main.go:181,198,207  dumper.Dump(ctx) is a synchronous call: main stays at
\* the call site until Dump returns
CallDump_Async(site) == "select"
CallDump(site) == site

\* main.go:181-185  one-shot: Fatal on error, return otherwise
AfterOneTimeRun(ret) == IF ret # "nil" THEN "fatal" ELSE "exit_ok"

\* main.go:198-200,207-209  periodic: an error is logged, the loop goes on
AfterPeriodicRun_Fatal(ret) == IF ret # "nil" THEN "fatal" ELSE "select"
AfterPeriodicRun(ret) == "select"

Init ==
  /\ oneTime \in BOOLEAN
  /\ interval \in 0..MaxInterval
  /\ mpc = "main"
  /\ ctx = FALSE
  /\ tickCh = 0
  /\ ticksFired = 0
  /\ ticksReceived = 0
  /\ runsStarted = 0
  /\ inFlight = 0
  /\ lastOutcome = "none"
  /\ dpc = "idle"
  /\ stageLog = <<>>
  /\ active = {}
  /\ finished = {}
  /\ failed = {}
  /\ retVal = "none"
  /\ dirExists = FALSE
  /\ zipExists = FALSE
  /\ attempted = {}
  /\ rmFailed = {}
  /\ cpc = "idle"
  /\ proc = "none"
  /\ reader = "none"
  /\ pipesClosed = FALSE
  /\ waitErr = "nil"
  /\ cerr = "none"
  /\ filesLeft = 0
  /\ filesArchived = 0
  /\ zerr = "none"
  /\ uerr = "none"
  /\ dirCreated = FALSE
  /\ cancelInWait = FALSE
  /\ cancelInArchive = FALSE
  /\ cd = Off /\ pr = Off /\ nm = Off /\ zf = Off /\ lb = Off

\* ------------------------------------------------------------- Dumper.Dump
\* entry of Dumper.Dump: GenerateBackupFilename gives the run fresh artifact
\* names, so neither artifact of this run exists yet
ResetRun ==
  /\ dpc' = "step1"
  /\ stageLog' = <<>>
  /\ active' = {}
  /\ finished' = {}
  /\ failed' = {}
  /\ retVal' = "none"
  /\ dirExists' = FALSE
  /\ zipExists' = FALSE
  /\ attempted' = {}
  /\ rmFailed' = {}
  /\ dirCreated' = FALSE
  /\ cpc' = "idle"
  /\ proc' = "none"
  /\ reader' = "none"
  /\ pipesClosed' = FALSE
  /\ waitErr' = "nil"
  /\ cerr' = "none"
  /\ filesLeft' = 0
  /\ filesArchived' = 0
  /\ zerr' = "none"
  /\ uerr' = "none"
  /\ cancelInWait' = FALSE
  /\ cancelInArchive' = FALSE
  /\ inFlight' = inFlight + 1
  /\ UNCHANGED auxVars

\* a call of Dumper.Dump that is counted in runsStarted
BeginRun ==
  /\ ResetRun
  /\ runsStarted' = runsStarted + 1

\* Dumper.Dump has returned to its caller
EndRun ==
  /\ dpc = "returned"
  /\ dpc' = "idle"
  /\ inFlight' = inFlight - 1
  /\ lastOutcome' = retVal
  /\ UNCHANGED <<stageLog, active, finished, failed, retVal, fsVars, dumpVars,
                 zipVars, uerr, obsVars, runsStarted, auxVars>>

\* ------------------------------------------------------------------- main
\* main.go:179-181
StartOneTime ==
  /\ mpc = "main"
  /\ IsOneTime(oneTime, interval)
  /\ mpc' = CallDump("oneshot_run")
  /\ BeginRun
  /\ UNCHANGED <<oneTime, interval, ctx, tickCh, ticksFired, ticksReceived,
                 lastOutcome>>

\* main.go:181-185
OneTimeReturn ==
  /\ mpc = "oneshot_run"
  /\ EndRun
  /\ mpc' = AfterOneTimeRun(retVal)
  /\ UNCHANGED <<oneTime, interval, ctx, tickCh, ticksFired, ticksReceived>>

\* main.go:193-198  the ticker is created, then the initial backup runs
StartPeriodic ==
  /\ mpc = "main"
  /\ ~IsOneTime(oneTime, interval)
  /\ mpc' = CallDump("initial_run")
  /\ BeginRun
  /\ UNCHANGED <<oneTime, interval, ctx, tickCh, ticksFired, ticksReceived,
                 lastOutcome>>

\* main.go:198-200
InitialReturn ==
  /\ mpc = "initial_run"
  /\ EndRun
  /\ mpc' = AfterPeriodicRun(retVal)
  /\ UNCHANGED <<oneTime, interval, ctx, tickCh, ticksFired, ticksReceived>>

\* main.go:205-207  case <-ticker.C
SelectTick ==
  /\ mpc = "select"
  /\ tickCh = 1
  /\ ticksReceived < MaxTicks
  /\ tickCh' = 0
  /\ ticksReceived' = ticksReceived + 1
  /\ mpc' = CallDump("sched_run")
  /\ BeginRun
  /\ UNCHANGED <<oneTime, interval, ctx, ticksFired, lastOutcome>>

\* main.go:207-209
ScheduledReturn ==
  /\ mpc = "sched_run"
  /\ EndRun
  /\ mpc' = AfterPeriodicRun(retVal)
  /\ UNCHANGED <<oneTime, interval, ctx, tickCh, ticksFired, ticksReceived>>

\* main.go:166,210  ctx.Done() is a channel that is closed by cancel(): the
\* receive from it is ready exactly when the context has been cancelled
DoneReady_Always(cancelled) == TRUE
DoneReady(cancelled) == cancelled

\* main.go:210-212  case <-ctx.Done()
SelectDone ==
  /\ mpc = "select"
  /\ DoneReady(ctx)
  /\ mpc' = "shutdown"
  /\ UNCHANGED <<oneTime, interval, ctx, tickCh, ticksFired, ticksReceived,
                 runsStarted, inFlight, lastOutcome, runVars, fsVars, dumpVars,
                 zipVars, uerr, obsVars, auxVars>>

\* the process is alive: main has neither returned nor called os.Exit
Alive == mpc \notin {"exit_ok", "fatal", "shutdown"}

\* main.go:193  time.NewTicker: the ticker sends on a channel of capacity 1
\* and drops the tick when the channel is full; pending is the number of
\* ticks in the channel
TickerSend_Queue(pending) == pending + 1
TickerSend(pending) == 1

\* the ticker fires
Tick ==
  /\ mpc \in {"initial_run", "select", "sched_run"}
  /\ ticksFired < MaxTicks
  /\ ticksFired' = ticksFired + 1
  /\ tickCh' = TickerSend(tickCh)
  /\ UNCHANGED <<oneTime, interval, mpc, ctx, ticksReceived, runsStarted,
                 inFlight, lastOutcome, runVars, fsVars, dumpVars, zipVars,
                 uerr, obsVars, auxVars>>

\* main.go:172-176  the signal goroutine calls cancel()
Cancel ==
  /\ Alive
  /\ mpc # "main"
  /\ ~ctx
  /\ ctx' = TRUE
  /\ cancelInWait' = (cancelInWait \/ (cpc = "wait" /\ proc = "running"))
  /\ cancelInArchive' = (cancelInArchive \/ (dpc = "compress" /\ filesLeft > 0))
  /\ UNCHANGED <<schedVars, runVars, fsVars, dumpVars, zipVars, uerr, auxVars>>

\* ----------------------------------------------------- Dumper.Dump, stages
\* what every step of a run leaves alone: main's state and the context
mainSame == UNCHANGED <<schedVars, ctx, obsVars, auxVars>>

\* a stage starts (the "STEP n/4" log line at its head)
StartStage(s) ==
  /\ stageLog' = Append(stageLog, s)
  /\ active' = active \cup {s}
  /\ UNCHANGED <<finished, failed>>

\* a stage finishes, with or without an error
FinishStage(s, ok) ==
  /\ active' = active \ {s}
  /\ finished' = finished \cup {s}
  /\ failed' = IF ok THEN failed ELSE failed \cup {s}
  /\ UNCHANGED stageLog

\* Dumper.Dump: "if err := <stage>; err != nil { return fmt.Errorf(...) }",
\* otherwise control falls through to the next step
AfterStage_Reorder(s, e) ==
  IF e # "nil" THEN "returned"
  ELSE IF s = "Dump" THEN "step3" ELSE "step4"
AfterStage_Retry(s, e) ==
  IF e # "nil"
    THEN IF s = "Dump" THEN "step1" ELSE IF s = "Archive" THEN "step2" ELSE "step3"
  ELSE IF s = "Dump" THEN "step2" ELSE IF s = "Archive" THEN "step3" ELSE "step4"
AfterStage_Continue(s, e) ==
  IF s = "Dump" THEN "step2" ELSE IF s = "Archive" THEN "step3" ELSE "step4"
AfterStage(s, e) ==
  IF e # "nil" THEN "returned"
  ELSE IF s = "Dump" THEN "step2" ELSE IF s = "Archive" THEN "step3" ELSE "step4"

\* the error Dumper.Dump returns when it leaves at a failed stage: the
\* stage's error wrapped with %w, so a wrapped context.Canceled stays one
StageReturn(next, e, old) == IF next = "returned" THEN e ELSE old

\* ------------------------------------------------ MongoDumper.CreateDump
\* part_001:645-647  STEP 1/4, call of CreateDump
DumpStart ==
  /\ dpc = "step1"
  /\ StartStage("Dump")
  /\ dpc' = "createDump"
  /\ cpc' = "mkdir"
  /\ UNCHANGED <<retVal, fsVars, proc, reader, pipesClosed, waitErr, cerr,
                 zipVars, uerr>>
  /\ mainSame

\* dump.go:48-50  os.MkdirAll(outputPath)
MkdirAll(ok) ==
  /\ dpc = "createDump" /\ cpc = "mkdir"
  /\ IF ok
       THEN /\ dirExists' = TRUE /\ dirCreated' = TRUE
            /\ cpc' = "start" /\ cerr' = cerr
       ELSE /\ UNCHANGED <<dirExists, dirCreated>>
            /\ cpc' = "ret" /\ cerr' = "err"
  /\ UNCHANGED <<runVars, zipExists, attempted, rmFailed, proc, reader,
                 pipesClosed, waitErr, zipVars, uerr>>
  /\ mainSame

\* the results of setupCommandOutput followed by cmd.Start: once ctx is done
\* Start returns ctx.Err(); before that it starts the subprocess or fails
StartResults(cancelled) ==
  IF cancelled THEN {"err", "canceled"} ELSE {"nil", "err"}

\* dump.go:70-84  exec.CommandContext, setupCommandOutput, cmd.Start, and the
\* two reader goroutines
CmdStart(res) ==
  /\ dpc = "createDump" /\ cpc = "start"
  /\ res \in StartResults(ctx)
  /\ IF res = "nil"
       THEN /\ proc' = "running" /\ reader' = "reading"
            /\ cpc' = "wait" /\ cerr' = cerr
       ELSE /\ UNCHANGED <<proc, reader>>
            /\ cpc' = "ret" /\ cerr' = res
  /\ UNCHANGED <<runVars, fsVars, pipesClosed, waitErr, zipVars, uerr>>
  /\ mainSame

\* the mongodump subprocess exits by itself, with status 0 or not
ProcExit(code) ==
  /\ proc = "running"
  /\ proc' = code
  /\ UNCHANGED <<runVars, fsVars, cpc, reader, pipesClosed, waitErr, cerr,
                 zipVars, uerr>>
  /\ mainSame

\* dump.go:70  exec.CommandContext: once ctx is done the command's watcher
\* kills the subprocess
CommandContext_NoKill(cancelled, p) == FALSE
CommandContext(cancelled, p) == cancelled /\ p = "running"

CtxKill ==
  /\ CommandContext(ctx, proc)
  /\ proc' = "killed"
  /\ UNCHANGED <<runVars, fsVars, cpc, reader, pipesClosed, waitErr, cerr,
                 zipVars, uerr>>
  /\ mainSame

\* the error cmd.Wait may return for a subprocess state: a killed or failed
\* subprocess gives an error; one that exited with status 0 gives nil, or
\* ctx.Err() when the watcher signalled it after ctx was done and before Wait
\* reaped it
WaitResults(p, cancelled) ==
  IF p = "exit0" THEN (IF cancelled THEN {"nil", "canceled"} ELSE {"nil"})
  ELSE {"err"}

\* dump.go:142  err = cmd.Wait(): returns once the subprocess has exited and
\* closes the parent's ends of the stdout and stderr pipes
CmdWait ==
  /\ dpc = "createDump" /\ cpc = "wait"
  /\ proc \in {"exit0", "exit1", "killed"}
  /\ \E e \in WaitResults(proc, ctx) : waitErr' = e
  /\ pipesClosed' = TRUE
  /\ cpc' = "drain"
  /\ UNCHANGED <<runVars, fsVars, proc, reader, cerr, zipVars, uerr>>
  /\ mainSame

\* dump.go:88-129  the stdout goroutine: scanner.Scan returns false at end of
\* stream or when the pipe has been closed; then close(progressCh)
StdoutReaderDone ==
  /\ reader = "reading"
  /\ proc # "running" \/ pipesClosed
  /\ reader' = "done"
  /\ UNCHANGED <<runVars, fsVars, cpc, proc, pipesClosed, waitErr, cerr,
                 zipVars, uerr>>
  /\ mainSame

\* dump.go:143-156  <-progressCh, then the error branch
WaitProgressCh ==
  /\ dpc = "createDump" /\ cpc = "drain"
  /\ reader = "done"
  /\ IF waitErr # "nil"
       THEN cpc' = "ret" /\ cerr' = waitErr
       ELSE cpc' = "stats" /\ cerr' = cerr
  /\ UNCHANGED <<runVars, fsVars, proc, reader, pipesClosed, waitErr,
                 zipVars, uerr>>
  /\ mainSame

\* dump.go:158-214  the statistics walk; its failure is only logged
DumpStats(walkOk) ==
  /\ dpc = "createDump" /\ cpc = "stats"
  /\ cpc' = "ret"
  /\ cerr' = "nil"
  /\ UNCHANGED <<runVars, fsVars, proc, reader, pipesClosed, waitErr,
                 zipVars, uerr>>
  /\ mainSame

\* part_001:647-650  CreateDump has returned to Dumper.Dump
DumpEnd ==
  /\ dpc = "createDump" /\ cpc = "ret"
  /\ FinishStage("Dump", cerr = "nil")
  /\ dpc' = AfterStage("Dump", cerr)
  /\ retVal' = StageReturn(dpc', cerr, retVal)
  /\ cpc' = "idle"
  /\ UNCHANGED <<fsVars, proc, reader, pipesClosed, waitErr, cerr, zipVars,
                 uerr>>
  /\ mainSame

\* ----------------------------------------------------------- compressFile
\* part_001:692-700  STEP 2/4, call of compressFile(localBackupPath, compressedPath)
ArchiveStart ==
  /\ dpc = "step2"
  /\ StartStage("Archive")
  /\ dpc' = "zcreate"
  /\ UNCHANGED <<retVal, fsVars, dumpVars, zipVars, uerr>>
  /\ mainSame

\* part_001:795-803  os.Create(target) and zip.NewWriter; the walk then finds
\* the regular files of the dump directory
ZipCreate(ok, n) ==
  /\ dpc = "zcreate"
  /\ IF ok
       THEN /\ zipExists' = TRUE
            /\ filesLeft' = n
            /\ dpc' = "compress" /\ zerr' = zerr
       ELSE /\ UNCHANGED <<zipExists, filesLeft>>
            /\ dpc' = "zret" /\ zerr' = "err"
  /\ UNCHANGED <<stageLog, active, finished, failed, retVal, dirExists,
                 attempted, rmFailed, dirCreated, dumpVars, filesArchived, uerr>>
  /\ mainSame

\* part_001:806-855  the walk callback for one regular file: header, entry,
\* open, io.CopyBuffer; any error ends the walk.  The callback takes no
\* context.
ZipFile(ok) ==
  /\ dpc = "compress"
  /\ filesLeft > 0
  /\ IF ok
       THEN /\ filesLeft' = filesLeft - 1
            /\ filesArchived' = filesArchived + 1
            /\ dpc' = dpc /\ zerr' = zerr
       ELSE /\ UNCHANGED <<filesLeft, filesArchived>>
            /\ dpc' = "zret" /\ zerr' = "err"
  /\ UNCHANGED <<stageLog, active, finished, failed, retVal, fsVars, dumpVars,
                 uerr>>
  /\ mainSame

\* part_001:857-861  the walk is over: return nil
ZipWalkDone ==
  /\ dpc = "compress"
  /\ filesLeft = 0
  /\ dpc' = "zret"
  /\ zerr' = "nil"
  /\ UNCHANGED <<stageLog, active, finished, failed, retVal, fsVars, dumpVars,
                 filesLeft, filesArchived, uerr>>
  /\ mainSame

\* part_001:700-704  compressFile has returned to Dumper.Dump
ArchiveEnd ==
  /\ dpc = "zret"
  /\ FinishStage("Archive", zerr = "nil")
  /\ dpc' = AfterStage("Archive", zerr)
  /\ retVal' = StageReturn(dpc', zerr, retVal)
  /\ UNCHANGED <<fsVars, dumpVars, zipVars, uerr>>
  /\ mainSame

\* ---------------------------------------------------- S3Client.UploadFile
\* part_001:739-743  STEP 3/4, call of UploadFile(ctx, compressedPath, key)
UploadStart ==
  /\ dpc = "step3"
  /\ StartStage("Upload")
  /\ dpc' = "uopen"
  /\ UNCHANGED <<retVal, fsVars, dumpVars, zipVars, uerr>>
  /\ mainSame

\* part_002:137-170  os.Stat and os.Open of the container
UploadOpen(ok) ==
  /\ dpc = "uopen"
  /\ ok => zipExists
  /\ IF ok THEN dpc' = "putobject" /\ uerr' = uerr
           ELSE dpc' = "uret" /\ uerr' = "err"
  /\ UNCHANGED <<stageLog, active, finished, failed, retVal, fsVars, dumpVars,
                 zipVars>>
  /\ mainSame

\* part_002:185-193  s.client.PutObject(ctx, ...): fails at once when ctx is
\* already done, otherwise the transfer begins
PutObject ==
  /\ dpc = "putobject"
  /\ IF ctx THEN dpc' = "uret" /\ uerr' = "canceled"
            ELSE dpc' = "transfer" /\ uerr' = uerr
  /\ UNCHANGED <<stageLog, active, finished, failed, retVal, fsVars, dumpVars,
                 zipVars>>
  /\ mainSame

\* the transfer ends by itself: the object is stored, or the transport fails
TransferFinish(ok) ==
  /\ dpc = "transfer"
  /\ dpc' = "uret"
  /\ uerr' = IF ok THEN "nil" ELSE "err"
  /\ UNCHANGED <<stageLog, active, finished, failed, retVal, fsVars, dumpVars,
                 zipVars>>
  /\ mainSame

\* part_002:185  the in-flight request is aborted because ctx is done
TransferAbort ==
  /\ dpc = "transfer"
  /\ ctx
  /\ dpc' = "uret"
  /\ uerr' = "canceled"
  /\ UNCHANGED <<stageLog, active, finished, failed, retVal, fsVars, dumpVars,
                 zipVars>>
  /\ mainSame

\* part_001:743-748  UploadFile has returned to Dumper.Dump
UploadEnd ==
  /\ dpc = "uret"
  /\ FinishStage("Upload", uerr = "nil")
  /\ dpc' = AfterStage("Upload", uerr)
  /\ retVal' = StageReturn(dpc', uerr, retVal)
  /\ UNCHANGED <<fsVars, dumpVars, zipVars, uerr>>
  /\ mainSame

\* ---------------------------------------------------------------- Cleanup
\* part_001:750-752  STEP 4/4
CleanupStart ==
  /\ dpc = "step4"
  /\ StartStage("Cleanup")
  /\ dpc' = "rmdir"
  /\ UNCHANGED <<retVal, fsVars, dumpVars, zipVars, uerr>>
  /\ mainSame

\* part_001:755-759  a failed os.RemoveAll is logged; control goes on to the
\* removal of the archive
AfterRemoveAll(ok) == "rmzip"

\* part_001:755-759  os.RemoveAll(localBackupPath)
RemoveAll(ok) ==
  /\ dpc = "rmdir"
  /\ attempted' = attempted \cup {"dir"}
  /\ dirExists' = IF ok THEN FALSE ELSE dirExists
  /\ rmFailed' = IF ok THEN rmFailed ELSE rmFailed \cup {"dir"}
  /\ dpc' = AfterRemoveAll(ok)
  /\ UNCHANGED <<stageLog, active, finished, failed, retVal, zipExists,
                 dirCreated, dumpVars, zipVars, uerr>>
  /\ mainSame

\* part_001:762-766  os.Remove(compressedPath)
Remove(ok) ==
  /\ dpc = "rmzip"
  /\ attempted' = attempted \cup {"zip"}
  /\ zipExists' = IF ok THEN FALSE ELSE zipExists
  /\ rmFailed' = IF ok THEN rmFailed ELSE rmFailed \cup {"zip"}
  /\ dpc' = "summary"
  /\ UNCHANGED <<stageLog, active, finished, failed, retVal, dirExists,
                 dirCreated, dumpVars, zipVars, uerr>>
  /\ mainSame

\* part_001:768-789  the value Dumper.Dump returns after Cleanup: nil,
\* whatever the removals did
CleanupResult_Strict(f) == IF f = {} THEN "nil" ELSE "err"
CleanupResult(f) == "nil"

\* part_001:768-789  summary log and return nil
CleanupEnd ==
  /\ dpc = "summary"
  /\ FinishStage("Cleanup", TRUE)
  /\ retVal' = CleanupResult(rmFailed)
  /\ dpc' = "returned"
  /\ UNCHANGED <<fsVars, dumpVars, zipVars, uerr>>
  /\ mainSame

\* ------------------------------------------------------------ specification
\* steps of the running program
ProgramStep ==
  \/ StartOneTime \/ OneTimeReturn \/ StartPeriodic \/ InitialReturn
  \/ SelectTick \/ ScheduledReturn \/ SelectDone
  \/ DumpStart \/ (\E ok \in BOOLEAN : MkdirAll(ok))
  \/ (\E res \in {"nil", "err", "canceled"} : CmdStart(res))
  \/ CtxKill \/ CmdWait \/ StdoutReaderDone \/ WaitProgressCh
  \/ (\E w \in BOOLEAN : DumpStats(w)) \/ DumpEnd
  \/ ArchiveStart \/ (\E ok \in BOOLEAN, n \in 0..MaxFiles : ZipCreate(ok, n))
  \/ (\E ok \in BOOLEAN : ZipFile(ok)) \/ ZipWalkDone \/ ArchiveEnd
  \/ UploadStart \/ (\E ok \in BOOLEAN : UploadOpen(ok)) \/ PutObject
  \/ TransferAbort \/ UploadEnd
  \/ CleanupStart \/ (\E ok \in BOOLEAN : RemoveAll(ok))
  \/ (\E ok \in BOOLEAN : Remove(ok)) \/ CleanupEnd

\* steps of the environment: the ticker, the signal, the subprocess and the
\* object store
EnvStep ==
  \/ Tick \/ Cancel
  \/ (\E code \in {"exit0", "exit1"} : ProcExit(code))
  \/ (\E ok \in BOOLEAN : TransferFinish(ok))

Next == ProgramStep \/ EnvStep

Spec == Init /\ [][Next]_vars

\* the Go scheduler runs every goroutine that can make a step; the
\* environment owes nothing
FairSpec == Spec /\ WF_vars(ProgramStep)

\* main.go:193  the ticker keeps firing for as long as the process lives;
\* firings beyond the ones counted in ticksFired refill ticker.C without
\* being counted
TickAgain ==
  /\ mpc \in {"initial_run", "select", "sched_run"}
  /\ ticksFired = MaxTicks
  /\ tickCh = 0
  /\ tickCh' = TickerSend(tickCh)
  /\ UNCHANGED <<oneTime, interval, mpc, ctx, ticksFired, ticksReceived,
                 runsStarted, inFlight, lastOutcome, runVars, fsVars, dumpVars,
                 zipVars, uerr, obsVars, auxVars>>

\* main.go:205-207  case <-ticker.C for a tick that is no longer counted
SelectTickAgain ==
  /\ mpc = "select"
  /\ tickCh = 1
  /\ ticksReceived = MaxTicks
  /\ tickCh' = 0
  /\ mpc' = CallDump("sched_run")
  /\ ResetRun
  /\ UNCHANGED <<oneTime, interval, ctx, ticksFired, ticksReceived,
                 runsStarted, lastOutcome>>

NextSched == Next \/ TickAgain \/ SelectTickAgain

\* the scheduler with a ticker that never runs dry: every goroutine that
\* can step does so, and the select of main.go:204 is fair between its
\* cases: a case that is ready again and again is eventually chosen
SpecSched ==
  /\ Init /\ [][NextSched]_vars
  /\ WF_vars(ProgramStep \/ SelectTickAgain)
  /\ SF_vars(SelectDone)

\* ------------------------------------------------------------------ claims
\* C1: in every run the stages start in the order Dump, Archive, Upload,
\* Cleanup; a stage starts only after all earlier ones have finished, no
\* stage starts twice, and at most one stage is active at any time.
C1_StageOrder ==
  /\ Len(stageLog) <= Len(StageOrder)
  /\ \A i \in 1..Len(stageLog) : stageLog[i] = StageOrder[i]
  /\ \A i \in 1..(Len(stageLog) - 1) : stageLog[i] \in finished
  /\ Cardinality(active) <= 1
  /\ \A s \in active : stageLog # <<>> /\ s = stageLog[Len(stageLog)]
  /\ active \cap finished = {}

\* a run in which Cleanup is running after the three other stages
C1_Witness ==
  /\ stageLog = StageOrder
  /\ active = {"Cleanup"}
  /\ finished = {"Dump", "Archive", "Upload"}

\* C2: a failed Dump stage means Archive and Upload are never started in that
\* run, a failed Archive stage means Upload is never started, no stage at
\* all starts after a failure, and Dumper.Dump returns a non-nil error.
C2_FailureAborts ==
  /\ "Dump" \in failed =>
       \A i \in 1..Len(stageLog) : stageLog[i] \notin {"Archive", "Upload"}
  /\ "Archive" \in failed =>
       \A i \in 1..Len(stageLog) : stageLog[i] # "Upload"
  /\ failed # {} =>
       /\ dpc \in {"returned", "idle"}
       /\ retVal \in {"err", "canceled"}
       /\ stageLog[Len(stageLog)] \in failed

\* a run that returned an error because the Archive stage failed
C2_Witness ==
  /\ dpc = "returned"
  /\ failed = {"Archive"}
  /\ stageLog = <<"Dump", "Archive">>
  /\ retVal = "err"

\* C3 (as claimed): when Dumper.Dump returns from a run that reached the
\* Archive or the Upload stage, the dump directory and the archive are both
\* gone unless a removal failed.
C3_ArtifactsRemoved ==
  (/\ dpc = "returned"
   /\ \E i \in 1..Len(stageLog) : stageLog[i] \in {"Archive", "Upload"}
   /\ rmFailed = {})
  => (~dirExists /\ ~zipExists)

\* C4 (as claimed): on every exit path after CreateDump created the output
\* directory, its removal has been attempted when Dumper.Dump returns.
C4_CleanupOnEveryExit ==
  (dpc = "returned" /\ dirCreated) => "dir" \in attempted

\* C5: when Dump, Archive and Upload all succeeded Dumper.Dump returns nil
\* whichever removals failed, and a failed removal of the dump directory is
\* followed by the attempt to remove the archive.
C5_CleanupNonFatal ==
  /\ (dpc = "returned" /\ {"Dump", "Archive", "Upload"} \subseteq (finished \ failed))
       => retVal = "nil"
  /\ (dpc \in {"summary", "returned"} /\ "dir" \in rmFailed)
       => "zip" \in attempted

\* a successful run returning while both removals have failed
C5_Witness ==
  /\ dpc = "returned"
  /\ rmFailed = {"dir", "zip"}
  /\ dirExists /\ zipExists
  /\ retVal = "nil"

\* C6: at most one call of Dumper.Dump is in flight, and main is at a point
\* where it can start a run only when none is.
C6_NoOverlap ==
  /\ inFlight \in {0, 1}
  /\ mpc \in {"main", "select", "shutdown", "fatal", "exit_ok"} => inFlight = 0
  /\ inFlight = 0 <=> dpc = "idle"

\* a scheduled run still in flight while the next tick is already pending
C6_Witness ==
  /\ mpc = "sched_run"
  /\ inFlight = 1
  /\ tickCh = 1
  /\ dpc = "transfer"

\* C7: in periodic mode one run starts before any tick is received and then
\* exactly one per received tick; the loop ends only by cancellation, never
\* by a fatal exit, and a run that returns (an error or nil) puts main back
\* at the select.
C7_Periodic ==
  /\ [](~(oneTime \/ interval = 0) =>
          /\ runsStarted = (IF mpc = "main" THEN 0 ELSE 1) + ticksReceived
          /\ mpc \notin {"fatal", "exit_ok", "oneshot_run"}
          /\ (mpc = "shutdown" => ctx))
  /\ [][(~(oneTime \/ interval = 0) /\ dpc = "returned" /\ dpc' = "idle")
          => mpc' = "select"]_vars

\* a tick starts a run right after a run that returned a stage error
C7_Witness ==
  /\ ~(oneTime \/ interval = 0)
  /\ mpc = "sched_run"
  /\ lastOutcome = "err"
  /\ ~ctx
  /\ dpc = "step1"

\* C8: with the one-time flag set or a zero interval the pipeline is run
\* exactly once: an error ends the process fatally, success ends it normally,
\* and no second run, ticker loop or shutdown path is ever entered.
C8_OneShot ==
  (oneTime \/ interval = 0) =>
    /\ runsStarted <= 1
    /\ mpc \in {"main", "oneshot_run", "fatal", "exit_ok"}
    /\ mpc = "oneshot_run" => (runsStarted = 1 /\ inFlight = 1)
    /\ mpc = "fatal" => (runsStarted = 1 /\ lastOutcome \in {"err", "canceled"})
    /\ mpc = "exit_ok" => (runsStarted = 1 /\ lastOutcome = "nil")

\* the one-time flag overrides a non-zero interval, and the run failed
C8_Witness ==
  /\ oneTime /\ interval > 0
  /\ mpc = "fatal"
  /\ lastOutcome = "err"

\* C9 (as claimed): once ctx was cancelled while cmd.Wait waited on the live
\* subprocess, CreateDump returns with the subprocess terminated and with an
\* error.
C9_CancelGivesDumpError ==
  (cancelInWait /\ cerr # "none") => (proc # "running" /\ cerr # "nil")

\* C9 (amended): after such a cancellation CreateDump returns only with the
\* subprocess terminated, with an error whenever the subprocess was killed or
\* exited non-zero, and Dumper.Dump eventually returns an error.
C9_CancelTerminates ==
  /\ []((cancelInWait /\ cerr # "none") =>
          /\ proc \in {"exit0", "exit1", "killed"}
          /\ proc \in {"exit1", "killed"} => cerr # "nil")
  /\ ((cancelInWait /\ cpc = "wait")
        ~> (cancelInWait /\ dpc = "returned" /\ retVal \in {"err", "canceled"}))

\* the subprocess was killed after the cancellation and the run returned
C9_Witness ==
  /\ cancelInWait
  /\ proc = "killed"
  /\ dpc = "returned"
  /\ retVal = "err"

\* C10 (as claimed): when ctx is cancelled while compressFile still has files
\* to copy, compressFile returns an error.
C10_ArchiveHonorsCancel ==
  (cancelInArchive /\ zerr # "none") => zerr # "nil"

\* C11 (as claimed): a run that ended because its context was cancelled and
\* the subprocess was killed returns a cancellation-class error.
C11_CancellationClass ==
  (dpc = "returned" /\ cancelInWait /\ proc = "killed") => retVal = "canceled"

\* ---------------------------------------------------- the components alone
mainVars == <<schedVars, ctx, runVars, fsVars, dumpVars, zipVars, uerr, obsVars>>

\* the scheduler and the pipeline are not running
MainOff ==
  /\ oneTime = FALSE /\ interval = 0 /\ mpc = "off" /\ ctx = FALSE
  /\ tickCh = 0 /\ ticksFired = 0 /\ ticksReceived = 0
  /\ runsStarted = 0 /\ inFlight = 0 /\ lastOutcome = "none"
  /\ dpc = "idle" /\ stageLog = <<>> /\ active = {} /\ finished = {}
  /\ failed = {} /\ retVal = "none"
  /\ dirExists = FALSE /\ zipExists = FALSE /\ attempted = {} /\ rmFailed = {}
  /\ cpc = "idle" /\ proc = "none" /\ reader = "none" /\ pipesClosed = FALSE
  /\ waitErr = "nil" /\ cerr = "none"
  /\ filesLeft = 0 /\ filesArchived = 0 /\ zerr = "none" /\ uerr = "none"
  /\ dirCreated = FALSE /\ cancelInWait = FALSE /\ cancelInArchive = FALSE

\* =========================================================================
\* MongoDumper.CreateDump: the subprocess, its pipes and the two readers
\* =========================================================================
\* largest number of lines the subprocess writes to one stream
MaxLines == 3
\* lines a pipe holds before a write of the subprocess blocks
PipeCap == 1

\* a line is an ordinary line or one longer than bufio.Scanner's token limit
LineKinds == {"line", "LONG"}

\* all sequences over S of length at most n
SeqsUpTo(S, n) == UNION {[1..k -> S] : k \in 0..n}

\* dump.go:70-84  after cmd.Start: the subprocess runs with what it is going
\* to write, both pipes are empty, both goroutines are about to scan
InitStreams ==
  /\ MainOff
  /\ pr = Off /\ nm = Off /\ zf = Off /\ lb = Off
  /\ \E o \in SeqsUpTo(LineKinds, MaxLines), e \in SeqsUpTo(LineKinds, MaxLines) :
       cd = [pc |-> "wait", proc |-> "running", code |-> 0,
             outTodo |-> o, errTodo |-> e,
             outPipe |-> <<>>, errPipe |-> <<>>,
             outSent |-> <<>>, errSent |-> <<>>,
             closed |-> FALSE,
             outRd |-> "scan", errRd |-> "scan", errLine |-> "",
             stdoutBuf |-> <<>>, stderrBuf |-> <<>>,
             waitErr |-> "nil", ret |-> "none", msg |-> <<>>,
             racy |-> FALSE]

cdSame == UNCHANGED <<mainVars, pr, nm, zf, lb>>

\* the subprocess writes its next stdout line; the write blocks while the
\* pipe is full
WriteStdout ==
  /\ cd.pc # "off" /\ cd.proc = "running"
  /\ cd.outTodo # <<>>
  /\ Len(cd.outPipe) < PipeCap
  /\ cd' = [cd EXCEPT !.outTodo = Tail(@),
                      !.outPipe = Append(@, Head(cd.outTodo)),
                      !.outSent = Append(@, Head(cd.outTodo))]
  /\ cdSame

\* the subprocess writes its next stderr line
WriteStderr ==
  /\ cd.pc # "off" /\ cd.proc = "running"
  /\ cd.errTodo # <<>>
  /\ Len(cd.errPipe) < PipeCap
  /\ cd' = [cd EXCEPT !.errTodo = Tail(@),
                      !.errPipe = Append(@, Head(cd.errTodo)),
                      !.errSent = Append(@, Head(cd.errTodo))]
  /\ cdSame

\* the subprocess has written everything and exits with some status
Exit(code) ==
  /\ cd.pc # "off" /\ cd.proc = "running"
  /\ cd.outTodo = <<>> /\ cd.errTodo = <<>>
  /\ cd' = [cd EXCEPT !.proc = "exited", !.code = code]
  /\ cdSame

\* what scanner.Scan does with the next line of a pipe: a line within the
\* token limit is returned, a longer one makes Scan return false
ScanStops(l) == l = "LONG"

\* dump.go:95-127  one iteration of the stdout goroutine's scan loop, or its
\* end with close(progressCh)
ScanStdout ==
  /\ cd.pc # "off" /\ cd.outRd = "scan"
  /\ ~cd.closed
  /\ cd.outPipe # <<>>
  /\ cd' = IF ScanStops(Head(cd.outPipe))
             THEN [cd EXCEPT !.outPipe = Tail(@), !.outRd = "done"]
             ELSE [cd EXCEPT !.outPipe = Tail(@),
                             !.stdoutBuf = Append(@, Head(cd.outPipe))]
  /\ cdSame

\* dump.go:95,128  Scan returns false at end of stream (the subprocess has
\* exited and the pipe is empty) or because the pipe was closed under it
EndStdout ==
  /\ cd.pc # "off" /\ cd.outRd = "scan"
  /\ cd.closed \/ (cd.proc = "exited" /\ cd.outPipe = <<>>)
  /\ cd' = [cd EXCEPT !.outRd = "done"]
  /\ cdSame

\* dump.go:134-135  scanner.Scan and scanner.Text in the stderr goroutine:
\* the line is taken from the pipe
ScanStderr ==
  /\ cd.pc # "off" /\ cd.errRd = "scan"
  /\ ~cd.closed
  /\ cd.errPipe # <<>>
  /\ cd' = IF ScanStops(Head(cd.errPipe))
             THEN [cd EXCEPT !.errPipe = Tail(@), !.errRd = "done"]
             ELSE [cd EXCEPT !.errPipe = Tail(@), !.errRd = "append",
                             !.errLine = Head(cd.errPipe)]
  /\ cdSame

\* dump.go:136  stderrBuf.WriteString(line): the line the goroutine holds
\* is appended, whether or not the pipe has been closed since; the write
\* races with a CreateDump that is reading stderrBuf
AppendStderr ==
  /\ cd.pc # "off" /\ cd.errRd = "append"
  /\ cd' = [cd EXCEPT !.errRd = "scan", !.stderrBuf = Append(@, cd.errLine)]
  /\ cdSame

\* dump.go:134,139  the stderr goroutine ends; nothing waits for it
EndStderr ==
  /\ cd.pc # "off" /\ cd.errRd = "scan"
  /\ cd.closed \/ (cd.proc = "exited" /\ cd.errPipe = <<>>)
  /\ cd' = [cd EXCEPT !.errRd = "done"]
  /\ cdSame

\* dump.go:142  err = cmd.Wait(): returns when the subprocess has exited and
\* closes the parent's ends of both pipes, whatever is still unread in them
Wait ==
  /\ cd.pc = "wait"
  /\ cd.proc = "exited"
  /\ cd' = [cd EXCEPT !.pc = "drain", !.closed = TRUE,
                      !.waitErr = IF cd.code = 0 THEN "nil" ELSE "err"]
  /\ cdSame

\* dump.go:143  what CreateDump waits for before it goes on: progressCh,
\* closed by the stdout goroutine alone
Awaited(c) == c.outRd = "done"

\* dump.go:143-156,214  <-progressCh; on error the message embeds
\* stderrBuf.String() as it is at that moment; otherwise return nil
Return ==
  /\ cd.pc = "drain"
  /\ Awaited(cd)
  /\ cd' = [cd EXCEPT !.pc = "done",
                      !.ret = cd.waitErr,
                      !.msg = IF cd.waitErr = "nil" THEN <<>> ELSE cd.stderrBuf,
                      !.racy = (cd.waitErr # "nil" /\ cd.errRd = "append")]
  /\ cdSame

NextStreams ==
  \/ WriteStdout \/ WriteStderr
  \/ (\E code \in {0, 1} : Exit(code))
  \/ ScanStdout \/ EndStdout \/ ScanStderr \/ AppendStderr \/ EndStderr
  \/ Wait \/ Return

SpecStreams == InitStreams /\ [][NextStreams]_vars

\* C12 (as claimed): when the subprocess exited non-zero, the error message
\* of CreateDump holds every line the subprocess wrote to stderr.
C12_StderrInFull ==
  (cd.pc = "done" /\ cd.ret = "err") => cd.msg = cd.errSent

\* C13 (as claimed): CreateDump returns only after both goroutines have
\* finished and have read everything their stream carried.
C13_BothDrained ==
  cd.pc = "done" =>
    /\ cd.outRd = "done" /\ cd.errRd = "done"
    /\ cd.outPipe = <<>> /\ cd.errPipe = <<>>

\* =========================================================================
\* Progress logging: the stdout parser of CreateDump and progressReader
\* =========================================================================
\* calls of the parser or of the reader explored
MaxOps == 4
\* largest size of the uploaded file, in bytes
MaxSize == 4

\* numbers the pattern (\d+)% can yield from a line of mongodump
PctMarkers == {0, 5, 10, 50, 100, 150}
\* collections the pattern "writing ([^ ]+) to" can yield ("" is no match)
CollMarkers == {"", "db.users"}
\* offsets and origins progressReader.Seek is called with
SeekOffsets == {0 - 1, 0, 1}
SeekWhence == {"SeekStart", "SeekCurrent", "SeekEnd"}

\* sizes of the uploaded file, and the byte counts one Read can return (0 at
\* end of file)
FileSizes == 1..MaxSize \cup {16}
ReadSizes == 0..MaxSize \cup {8, 12}

\* dump.go:110, part_002:43  the throttle of both loggers
ShouldLog_Always(pct, last) == TRUE
ShouldLog(pct, last) == pct >= last + 10 \/ pct = 100

\* part_002:40  pct := int((float64(bytesRead) / float64(totalSize)) * 100);
\* for the sizes explored the float expression equals the integer quotient
Pct_Unscaled(bytesRead, totalSize) == bytesRead \div totalSize
Pct(bytesRead, totalSize) == (bytesRead * 100) \div totalSize

\* dump.go:90-93 and part_002:173-180: a fresh parser, or a fresh
\* progressReader over a file of some size
InitProgress ==
  /\ MainOff
  /\ cd = Off /\ nm = Off /\ zf = Off /\ lb = Off
  /\ \/ pr = [pc |-> "parser", ops |-> 0, lastPercentage |-> 0,
              currentCollection |-> "", log |-> <<>>, observed |-> 0 - 1]
     \/ \E size \in FileSizes :
          pr = [pc |-> "reader", ops |-> 0, totalSize |-> size, offset |-> 0,
                bytesRead |-> 0, lastLoggedPct |-> 0, log |-> <<>>,
                observed |-> 0 - 1, seeks |-> 0]

prSame == UNCHANGED <<mainVars, cd, nm, zf, lb>>

\* dump.go:95-127  one stdout line: coll is the collection the line names
\* ("" if none), pct the percentage it carries (-1 if none)
ParseLine(coll, pct) ==
  /\ pr.pc = "parser"
  /\ pr.ops < MaxOps
  /\ LET cur == IF coll # "" THEN coll ELSE pr.currentCollection
         logs == pct >= 0 /\ ShouldLog(pct, pr.lastPercentage)
     IN pr' = [pr EXCEPT !.ops = @ + 1,
                         !.observed = pct,
                         !.currentCollection = cur,
                         !.log = IF logs THEN Append(@, pct) ELSE @,
                         !.lastPercentage = IF logs THEN pct ELSE @]
  /\ prSame

\* part_002:35-77  Read: the file hands over n bytes, none at its end;
\* observed is the percentage the call computed (-1 if it computed none)
Read(n) ==
  /\ pr.pc = "reader"
  /\ pr.ops < MaxOps
  /\ IF pr.offset = pr.totalSize THEN n = 0 ELSE n >= 1 /\ pr.offset + n <= pr.totalSize
  /\ LET br == pr.bytesRead + n
         pct == Pct(br, pr.totalSize)
         logs == n > 0 /\ ShouldLog(pct, pr.lastLoggedPct)
     IN pr' = [pr EXCEPT !.ops = @ + 1,
                         !.observed = IF n > 0 THEN pct ELSE 0 - 1,
                         !.offset = @ + n,
                         !.bytesRead = br,
                         !.log = IF logs THEN Append(@, pct) ELSE @,
                         !.lastLoggedPct = IF logs THEN pct ELSE @]
  /\ prSame

\* io.Seeker on the file: the new offset for an origin and a displacement
SeekTarget(whence, off, cur, size) ==
  IF whence = "SeekStart" THEN off
  ELSE IF whence = "SeekCurrent" THEN cur + off
  ELSE size + off

\* part_002:80-87  Seek: the counters are reset only for (0, SeekStart); the
\* file's offset moves in every case
Seek(off, whence) ==
  /\ pr.pc = "reader"
  /\ pr.ops < MaxOps
  /\ LET target == SeekTarget(whence, off, pr.offset, pr.totalSize)
         reset == off = 0 /\ whence = "SeekStart"
     IN /\ target >= 0 /\ target <= pr.totalSize
        /\ pr' = [pr EXCEPT !.ops = @ + 1,
                            !.seeks = @ + 1,
                            !.observed = 0 - 1,
                            !.offset = target,
                            !.bytesRead = IF reset THEN 0 ELSE @,
                            !.lastLoggedPct = IF reset THEN 0 ELSE @]
  /\ prSame

NextProgress ==
  \/ (\E coll \in CollMarkers, pct \in PctMarkers \cup {0 - 1} : ParseLine(coll, pct))
  \/ (\E n \in ReadSizes : Read(n))
  \/ (\E off \in SeekOffsets, whence \in SeekWhence : Seek(off, whence))

SpecProgress == InitProgress /\ [][NextProgress]_vars

\* C14 (as claimed): within one stage the logged percent_complete values are
\* non-decreasing and each lies in 0..100.
C14_ProgressMonotone ==
  pr.pc \in {"parser", "reader"} =>
    /\ \A i \in 1..Len(pr.log) : pr.log[i] >= 0 /\ pr.log[i] <= 100
    /\ \A i \in 1..(Len(pr.log) - 1) : pr.log[i] <= pr.log[i + 1]

\* =========================================================================
\* Naming: the mongodump arguments and GenerateBackupFilename
\* =========================================================================
\* strings.Contains for a one-character pattern; a string that is searched
\* or split is modelled as the sequence of its characters
Contains(str, ch) == \E i \in 1..Len(str) : str[i] = ch

\* strings.Split for a one-character separator
RECURSIVE SplitFrom(_, _, _)
SplitFrom(str, ch, cur) ==
  IF str = <<>> THEN <<cur>>
  ELSE IF Head(str) = ch THEN <<cur>> \o SplitFrom(Tail(str), ch, <<>>)
  ELSE SplitFrom(Tail(str), ch, Append(cur, Head(str)))
Split(str, ch) == SplitFrom(str, ch, <<>>)

\* dump.go:43-45  uriContainsDB
UriContainsDB(uri) ==
  /\ Contains(uri, "?")
  /\ Contains(uri, "/")
  /\ Len(Split(Split(uri, "?")[1], "/")) > 3

\* dump.go:53-61  the argument list of mongodump
MongodumpArgs(uri, database, outputPath) ==
  <<"--uri", uri, "--out", outputPath>>
    \o (IF database # "" /\ ~UriContainsDB(uri) THEN <<"--db", database>> ELSE <<>>)
    \o <<"--verbose">>

\* connection strings mongodb://host[/[database]][?options]: the path part
\* and the options part a URI is assembled from
UriPaths == {<<>>, <<"/">>, <<"/", "d", "b">>}
UriQueries == {<<>>, <<"?", "w", "=", "1">>, <<"?", "a", "=", "/", "x">>}
MakeUri(path, query) == <<"m", ":", "/", "/", "h">> \o path \o query

\* part_002:329-342  GetEnvironment and GetDatabase
GetValueOrDefault(value, defaultValue) ==
  IF value = "" THEN defaultValue ELSE value

\* the calendar days a run can fall on: the day of the UTC clock and the next
Days == <<[y |-> 2023, m |-> 4, d |-> 15], [y |-> 2023, m |-> 4, d |-> 16]>>
Digits == <<"0", "1", "2", "3", "4", "5", "6", "7", "8", "9">>
Pad2(n) == Digits[((n \div 10) % 10) + 1] \o Digits[(n % 10) + 1]
Pad4(n) == Pad2(n \div 100) \o Pad2(n % 100)

\* Format("2006-01-02") of a calendar day
FormatDate(day) == Pad4(day.y) \o "-" \o Pad2(day.m) \o "-" \o Pad2(day.d)

\* dump.go:234  time.Now().UTC().Format("2006-01-02T15-04-05Z")
FormatTimestamp_Minutes(t) ==
  FormatDate(Days[1]) \o "T" \o Pad2(t.h) \o "-" \o Pad2(t.mi) \o "Z"
FormatTimestamp(t) ==
  FormatDate(Days[1]) \o "T" \o Pad2(t.h) \o "-" \o Pad2(t.mi) \o "-" \o Pad2(t.s) \o "Z"

\* dump.go:248  time.Now().Format("2006-01-02"): a second reading of the
\* clock, late seconds after the first, in the zone of the host (tz hours
\* east of UTC)
LocalDate(t, late, tz) ==
  LET secs == (t.h + tz) * 3600 + t.mi * 60 + t.s + late
  IN FormatDate(Days[1 + (secs \div 86400)])

\* filepath.Join of a directory and a name that needs no cleaning itself:
\* an empty directory is ignored, and the cleaned result has one separator
\* between the two, also when the directory ends in one
TrimSlash(dir) ==
  IF Len(dir) > 1 /\ SubSeq(dir, Len(dir), Len(dir)) = "/"
    THEN SubSeq(dir, 1, Len(dir) - 1) ELSE dir
Join(dir, name) ==
  IF dir = "" THEN name
  ELSE IF TrimSlash(dir) = "/" THEN "/" \o name
  ELSE TrimSlash(dir) \o "/" \o name

\* part_001:697  compressedPath := localBackupPath + ".zip"
CompressedPath_Inside(localBackupPath) == Join(localBackupPath, "dump.zip")
CompressedPath(localBackupPath) == localBackupPath \o ".zip"

\* dump.go:233-251  GenerateBackupFilename, and part_001:697-698 the ".zip"
\* Dumper.Dump appends to the local path and to the key
GenerateBackupFilename(cfg, t, late, tz) ==
  LET timestamp == FormatTimestamp(t)
      environment == GetValueOrDefault(cfg.env, "default")
      dbName == GetValueOrDefault(cfg.db, "all-databases")
      backupDirName == dbName \o "-" \o environment \o "-" \o timestamp
      localBackupPath == Join(cfg.tempDir, backupDirName)
      s3Key == environment \o "/" \o LocalDate(t, late, tz) \o "/" \o backupDirName
  IN [name |-> backupDirName, path |-> localBackupPath, prefix |-> s3Key,
      zip |-> CompressedPath(localBackupPath), key |-> s3Key \o ".zip"]

\* the configurations and clock readings explored
Environments == {"", "default", "staging"}
Databases == {"", "all-databases", "orders"}
Clock == [h : {12, 23}, mi : {0, 59}, s : {0, 59}]
Zones == {0, 1}
Lateness == {0, 1}
\* values of DumperConfig.TempDir: main's default, a directory given with a
\* trailing separator, and the empty value NewDumper accepts (part_001:618)
TempDirs == {"/tmp/mongodb-dumps", "/data/", ""}

\* either CreateDump is about to build its arguments, or two runs (of one
\* host, maybe of two configurations) are about to generate their names
InitNames ==
  /\ MainOff
  /\ cd = Off /\ pr = Off /\ zf = Off /\ lb = Off
  /\ \/ \E p \in UriPaths, q \in UriQueries, db \in Databases :
          nm = [pc |-> "args", path |-> p, uri |-> MakeUri(p, q),
                database |-> db, outputPath |-> "/tmp/mongodb-dumps/x",
                args |-> <<>>]
     \/ \E e1 \in Environments, d1 \in Databases, t1 \in Clock,
           e2 \in Environments, d2 \in Databases, t2 \in Clock,
           l1 \in Lateness, tz \in Zones, dir \in TempDirs :
          nm = [pc |-> "names",
                cfg1 |-> [env |-> e1, db |-> d1, tempDir |-> dir],
                cfg2 |-> [env |-> e2, db |-> d2, tempDir |-> dir],
                t1 |-> t1, t2 |-> t2, late1 |-> l1, late2 |-> 0, tz |-> tz,
                run1 |-> Off, run2 |-> Off]

nmSame == UNCHANGED <<mainVars, cd, pr, zf, lb>>

\* dump.go:42-61
BuildArgs ==
  /\ nm.pc = "args"
  /\ nm' = [nm EXCEPT !.pc = "argsBuilt",
                      !.args = MongodumpArgs(nm.uri, nm.database, nm.outputPath)]
  /\ nmSame

\* part_001:639  the two runs call GenerateBackupFilename
GenerateNames ==
  /\ nm.pc = "names"
  /\ nm' = [nm EXCEPT !.pc = "named",
                      !.run1 = GenerateBackupFilename(nm.cfg1, nm.t1, nm.late1, nm.tz),
                      !.run2 = GenerateBackupFilename(nm.cfg2, nm.t2, nm.late2, nm.tz)]
  /\ nmSame

NextNames == BuildArgs \/ GenerateNames

SpecNames == InitNames /\ [][NextNames]_vars

\* C15 (as claimed): the arguments are --uri <source> --out <outputDir>
\* [--db <name>] --verbose, with the --db pair present exactly when a
\* database is configured and the URI's path names no database.
C15_DbFlagExact ==
  nm.pc = "argsBuilt" =>
    LET embedsDb == Len(nm.path) > 1
        wantDb == nm.database # "" /\ ~embedsDb
    IN nm.args = <<"--uri", nm.uri, "--out", nm.outputPath>>
                   \o (IF wantDb THEN <<"--db", nm.database>> ELSE <<>>)
                   \o <<"--verbose">>


\* C16 (as claimed): the remote key of a run is
\* {environment}/{YYYY-MM-DD}/{database}-{environment}-{timestamp}.zip with
\* the UTC start time as timestamp, the date of that same UTC timestamp as
\* date segment, and the defaults "default" and "all-databases".
C16_KeyFormat ==
  nm.pc = "named" =>
    LET environment == IF nm.cfg1.env = "" THEN "default" ELSE nm.cfg1.env
        database == IF nm.cfg1.db = "" THEN "all-databases" ELSE nm.cfg1.db
        timestamp == FormatTimestamp(nm.t1)
    IN /\ nm.run1.key = environment \o "/" \o FormatDate(Days[1]) \o "/"
                          \o database \o "-" \o environment \o "-" \o timestamp \o ".zip"
       /\ (nm.cfg1.env = "staging" /\ nm.cfg1.db = "orders"
             /\ nm.t1 = [h |-> 12, mi |-> 0, s |-> 0])
            => nm.run1.key = "staging/2023-04-15/orders-staging-2023-04-15T12-00-00Z.zip"

\* the configured triple of a run, and the triple after the defaults
Triple(cfg, t) == <<cfg.env, cfg.db, t>>
Effective(cfg, t) ==
  <<GetValueOrDefault(cfg.env, "default"), GetValueOrDefault(cfg.db, "all-databases"), t>>

MaxContent == 2

\* the bytes a dumped file can hold
Contents == SeqsUpTo({0, 1}, MaxContent)

\* the dump directory and the files mongodump can have left in it; ext is
\* what filepath.Ext gives for the name
SourceDir == <<"tmp", "orders-default-T">>
Candidates ==
  <<[rel |-> <<"a.bson">>, ext |-> ".bson"],
    [rel |-> <<"db", "u.bson">>, ext |-> ".bson"],
    [rel |-> <<"db", "u.metadata.json">>, ext |-> ".json"]>>

\* a tree says of each candidate whether it is there, and its content
Trees ==
  [1..Len(Candidates) ->
     {[present |-> FALSE, content |-> <<>>]} \cup [present : {TRUE}, content : Contents]]
Present(tree) == {i \in 1..Len(Candidates) : tree[i].present}

\* filepath.Walk: the root, then its entries in lexical order, a directory
\* before what it holds
WalkList(tree) ==
  LET file(i) == IF tree[i].present
                 THEN <<[path |-> SourceDir \o Candidates[i].rel, dir |-> FALSE,
                         ext |-> Candidates[i].ext, content |-> tree[i].content]>>
                 ELSE <<>>
      sub == file(2) \o file(3)
  IN <<[path |-> SourceDir, dir |-> TRUE, ext |-> "", content |-> <<>>]>>
       \o file(1)
       \o (IF sub # <<>>
           THEN <<[path |-> Append(SourceDir, "db"), dir |-> TRUE, ext |-> "",
                   content |-> <<>>]>> \o sub
           ELSE <<>>)

\* part_001:825  filepath.Rel(sourceDir, filePath)
Rel(sourceDir, filePath) == SubSeq(filePath, Len(sourceDir) + 1, Len(filePath))

\* header.Method = zip.Deflate: a lossless run-length code stands for it,
\* <<byte, count>> pairs
RECURSIVE Deflate(_)
Deflate(bytes) ==
  IF bytes = <<>> THEN <<>>
  ELSE LET rest == Deflate(Tail(bytes))
       IN IF rest # <<>> /\ rest[1][1] = Head(bytes)
          THEN <<<<Head(bytes), rest[1][2] + 1>>>> \o Tail(rest)
          ELSE <<<<Head(bytes), 1>>>> \o rest
RECURSIVE Inflate(_)
Inflate(data) ==
  IF data = <<>> THEN <<>>
  ELSE [i \in 1..data[1][2] |-> data[1][1]] \o Inflate(Tail(data))

\* bytes of a finalized container: per entry a local header and its data, a
\* directory record per entry, and the end record
RECURSIVE ContainerSize(_)
ContainerSize(entries) ==
  IF entries = <<>> THEN 1
  ELSE 2 + Len(Head(entries).data) + ContainerSize(Tail(entries))

\* part_001:661  what the statistics walk counts as a collection
IsData_AnyFile(e) == ~e.dir
IsData(e) == ~e.dir /\ e.ext = ".bson"

\* part_001:657-666  collectionCount and originalSize after the walk
\* function has been called on the first k entries
RECURSIVE WalkStats(_, _)
WalkStats(list, k) ==
  IF k = 0 THEN [count |-> 0, size |-> 0]
  ELSE LET before == WalkStats(list, k - 1)
       IN IF IsData(list[k])
          THEN [count |-> before.count + 1, size |-> before.size + Len(list[k].content)]
          ELSE before

\* the .bson files of a tree: their number and the sum of their sizes
CountBson(tree) ==
  Cardinality({i \in Present(tree) : Candidates[i].ext = ".bson"})
RECURSIVE SumBson(_, _)
SumBson(tree, i) ==
  IF i = 0 THEN 0
  ELSE SumBson(tree, i - 1)
         + (IF tree[i].present /\ Candidates[i].ext = ".bson" THEN Len(tree[i].content) ELSE 0)

\* part_001:713 and 787  float64(originalSize) / float64(compressedSize)
Ratio(originalSize, compressedSize) ==
  [num |-> originalSize, den |-> compressedSize,
   val |-> IF compressedSize # 0 THEN "finite"
           ELSE IF originalSize = 0 THEN "NaN" ELSE "+Inf"]

InitZip ==
  /\ MainOff
  /\ cd = Off /\ pr = Off /\ nm = Off /\ lb = Off
  /\ \E tree \in Trees :
       zf = [pc |-> "stats", tree |-> tree, todo |-> WalkList(tree),
             entries |-> <<>>, exists |-> FALSE, size |-> 0, finalized |-> FALSE,
             walkErr |-> FALSE, closeErr |-> FALSE, ret |-> "none",
             originalSize |-> 0, collectionCount |-> 0, statsErr |-> FALSE,
             compressedSize |-> 0, compressionRatio |-> Ratio(0, 1),
             divided |-> FALSE, log |-> <<>>]

zfSame == UNCHANGED <<mainVars, cd, pr, nm, lb>>

\* part_001:652-692  the statistics walk of Dumper.Dump after CreateDump
\* returned nil: it fails after k entries, or visits them all; a failure
\* (statsErr) is logged as a warning and the run goes on with what was
\* summed so far
StatsWalk(k) ==
  /\ zf.pc = "stats"
  /\ k \in 0..Len(zf.todo)
  /\ LET stats == WalkStats(zf.todo, k)
     IN zf' = [zf EXCEPT !.pc = "create",
                         !.collectionCount = stats.count,
                         !.originalSize = stats.size,
                         !.statsErr = (k < Len(zf.todo))]
  /\ zfSame

\* part_001:795-803  os.Create and zip.NewWriter
CompressCreate(ok) ==
  /\ zf.pc = "create"
  /\ zf' = IF ok THEN [zf EXCEPT !.pc = "walk", !.exists = TRUE]
           ELSE [zf EXCEPT !.pc = "returned", !.ret = "err"]
  /\ zfSame

\* part_001:806-859  filepath.Walk goes on after a nil from the walk
\* function and stops at its first error
AfterWalkFunc_Skip(o) == "walk"
AfterWalkFunc(o) == IF o = "ok" THEN "walk" ELSE "closeWriter"

\* part_001:806-855  the walk function on the next entry; o is where it
\* fails, if it does: "walk" is an entry Walk could not read, "create" a
\* failed CreateHeader, "open" a failed os.Open, "write" a failed copy
WalkFunc(o) ==
  /\ zf.pc = "walk" /\ zf.todo # <<>>
  /\ LET e == Head(zf.todo)
         name == Rel(SourceDir, e.path)
     IN /\ e.dir => o \in {"ok", "walk"}
        /\ zf' = [zf EXCEPT
               !.todo = Tail(zf.todo),
               !.entries =
                 IF e.dir \/ o \in {"walk", "create"} THEN zf.entries
                 ELSE IF o = "ok" THEN Append(zf.entries, [name |-> name, data |-> Deflate(e.content)])
                 ELSE Append(zf.entries, [name |-> name, data |-> <<>>]),
               !.walkErr = (o # "ok"),
               !.pc = AfterWalkFunc(o)]
  /\ zfSame

\* part_001:855  filepath.Walk has visited everything
WalkEnd ==
  /\ zf.pc = "walk" /\ zf.todo = <<>>
  /\ zf' = [zf EXCEPT !.pc = "closeWriter"]
  /\ zfSame

\* part_001:803  defer zipWriter.Close(): writes the central directory and
\* flushes the buffered container; its error is dropped
CloseZipWriter(ok) ==
  /\ zf.pc = "closeWriter"
  /\ zf' = [zf EXCEPT !.pc = "closeFile",
                      !.finalized = ok,
                      !.size = IF ok THEN ContainerSize(zf.entries) ELSE 0,
                      !.closeErr = ~ok]
  /\ zfSame

\* part_001:799  defer zipFile.Close(), its error dropped, and the return
\* at 857-861
CloseZipFile(ok) ==
  /\ zf.pc = "closeFile"
  /\ zf' = [zf EXCEPT !.pc = "returned",
                      !.closeErr = zf.closeErr \/ ~ok,
                      !.ret = IF zf.walkErr THEN "err" ELSE "nil"]
  /\ zfSame

\* part_001:700-737  Dumper.Dump after compressFile returned nil
StatCompressed(ok) ==
  /\ zf.pc = "returned" /\ zf.ret = "nil"
  /\ zf' = IF ok
           THEN [zf EXCEPT
                  !.pc = "upload",
                  !.compressedSize = zf.size,
                  !.compressionRatio = Ratio(zf.originalSize, zf.size),
                  !.divided = TRUE,
                  !.log = Append(zf.log, [msg |-> "STEP 2/4: Compression completed",
                                          ratio |-> Ratio(zf.originalSize, zf.size)])]
           ELSE [zf EXCEPT !.pc = "upload"]
  /\ zfSame

\* part_001:743-787  upload, cleanup and the summary of a run that got through
UploadCompressed(ok) ==
  /\ zf.pc = "upload"
  /\ zf' = IF ok
           THEN [zf EXCEPT
                  !.pc = "done",
                  !.log = Append(zf.log, [msg |-> "Backup process completed successfully",
                                          ratio |-> zf.compressionRatio])]
           ELSE [zf EXCEPT !.pc = "failed"]
  /\ zfSame

NextZip ==
  \/ \E k \in 0..(2 + Len(Candidates)) : StatsWalk(k)
  \/ \E ok \in BOOLEAN : CompressCreate(ok)
  \/ \E o \in {"ok", "walk", "create", "open", "write"} : WalkFunc(o)
  \/ WalkEnd
  \/ \E ok \in BOOLEAN : CloseZipWriter(ok)
  \/ \E ok \in BOOLEAN : CloseZipFile(ok)
  \/ \E ok \in BOOLEAN : StatCompressed(ok)
  \/ \E ok \in BOOLEAN : UploadCompressed(ok)

SpecZip == InitZip /\ [][NextZip]_vars

\* what a reader of the container finds: without the central directory it
\* finds no entry
ReadContainer == IF zf.finalized THEN zf.entries ELSE <<>>

\* C18 (as claimed): after a successful compressFile on a tree of N files
\* the container has exactly N entries, one per file and none for a
\* directory, each named by the file's path relative to the dump directory
\* and each inflating to the file's content.
C18_EntriesMatchTree ==
  (zf.pc = "returned" /\ zf.ret = "nil") =>
    /\ Len(ReadContainer) = Cardinality(Present(zf.tree))
    /\ \A i \in Present(zf.tree) :
         \E k \in 1..Len(ReadContainer) :
           /\ ReadContainer[k].name = Candidates[i].rel
           /\ Inflate(ReadContainer[k].data) = zf.tree[i].content

\* C19 (as claimed): the ratio is computed and reported only when the
\* compressed size is greater than zero: no division with compressedSize = 0
\* and no ratio field in a log entry of such a run.
C19_RatioGuarded ==
  zf.pc # "off" =>
    /\ zf.divided => zf.compressionRatio.den > 0
    /\ \A i \in 1..Len(zf.log) : zf.compressedSize > 0 /\ zf.log[i].ratio.val = "finite"


\* =========================================================================
\* S3Client.ListBackups
\* =========================================================================
MaxPages == 3
MaxKeys == 1

\* the object keys under the prefix, as the server cuts them into pages: at
\* least one page, any page possibly empty
Keys == {"a.zip", "b.zip"}
PageLists == UNION {[1..n -> SeqsUpTo(Keys, MaxKeys)] : n \in 1..MaxPages}

\* the server's answer to ListObjectsV2 with a continuation token; 0 is the
\* nil token of the first request, and the token of a truncated page names
\* the page after it
ListObjectsV2Output(pages, token) ==
  LET idx == token + 1
  IN [Contents |-> pages[idx],
      IsTruncated |-> idx < Len(pages),
      NextContinuationToken |-> IF idx < Len(pages) THEN idx ELSE 0]

\* part_002:268  the loop ends on a page that is not truncated
LastPage_Always(result) == TRUE
LastPage(result) == ~result.IsTruncated

RECURSIVE Concat(_)
Concat(pages) == IF pages = <<>> THEN <<>> ELSE Head(pages) \o Concat(Tail(pages))

InitList ==
  /\ MainOff
  /\ cd = Off /\ pr = Off /\ nm = Off /\ zf = Off
  /\ \E pages \in PageLists :
       lb = [pc |-> "loop", pages |-> pages, continuationToken |-> 0,
             backups |-> <<>>, requests |-> <<>>, list |-> <<>>, err |-> "none"]

lbSame == UNCHANGED <<mainVars, cd, pr, nm, zf>>

\* part_002:253-273  one turn of the loop: the request, and on its answer
\* the append, the test for the last page and the return
ListObjectsV2(ok) ==
  /\ lb.pc = "loop"
  /\ LET result == ListObjectsV2Output(lb.pages, lb.continuationToken)
         sent == Append(lb.requests, lb.continuationToken)
         backups == lb.backups \o result.Contents
     IN lb' = IF ~ok
              THEN [lb EXCEPT !.pc = "returned", !.requests = sent,
                              !.list = <<>>, !.err = "err"]
              ELSE IF LastPage(result)
              THEN [lb EXCEPT !.pc = "returned", !.requests = sent,
                              !.backups = backups, !.list = backups, !.err = "nil"]
              ELSE [lb EXCEPT !.requests = sent, !.backups = backups,
                              !.continuationToken = result.NextContinuationToken]
  /\ lbSame

NextList == \E ok \in BOOLEAN : ListObjectsV2(ok)

SpecList == InitList /\ [][NextList]_vars

\* the caller runs the loop on: a request is answered or fails
FairSpecList == SpecList /\ WF_vars(NextList)

\* what ListBackups has returned
ListReturned ==
  lb.pc = "returned" =>
    /\ lb.err = "nil" =>
         /\ lb.list = Concat(lb.pages)
         /\ lb.requests = [i \in 1..Len(lb.pages) |-> i - 1]
    /\ lb.err = "err" => lb.list = <<>>

\* C20: ListBackups requests the pages in order, each with the token of the
\* page before, until a page is not truncated, and returns the keys of all
\* pages in page order; a failed request gives an error and no list; and it
\* returns for every finite sequence of pages.
C20_ListBackups == [](lb.pc # "off" => ListReturned) /\ <>(lb.pc = "returned")

\* three pages have been fetched and returned as one list
C20_Witness ==
  /\ lb.pc = "returned" /\ lb.err = "nil"
  /\ lb.pages = <<<<"a.zip">>, <<>>, <<"b.zip">>>>
  /\ lb.list = <<"a.zip", "b.zip">>
  /\ lb.requests = <<0, 1, 2>>


\* =========================================================================
\* Construction: DumperConfig.Validate and NewDumper, as main calls them
\* =========================================================================
\* the fields Validate looks at, each set or empty, and the temp directory
DumperConfigs ==
  [MongoURI : {"", "mongodb://h"}, S3Endpoint : {"", "e"}, S3Bucket : {"", "b"},
   S3AccessKey : {"", "k"}, S3SecretKey : {"", "s"}, TempDir : {"", "/tmp/mongodb-dumps"}]

\* part_002:312-318  the required fields
RequiredFields_NoSecret(c) ==
  IF c.MongoURI = "" THEN "uri"
  ELSE IF c.S3Endpoint = "" \/ c.S3Bucket = "" \/ c.S3AccessKey = "" THEN "s3"
  ELSE "nil"
RequiredFields(c) ==
  IF c.MongoURI = "" THEN "uri"
  ELSE IF c.S3Endpoint = "" \/ c.S3Bucket = "" \/ c.S3AccessKey = "" \/ c.S3SecretKey = ""
       THEN "s3"
  ELSE "nil"

\* main.go:157  errors.Is(err, ErrMongoDumpNotFound): the sentinel itself as
\* Validate returns it, or wrapped by NewDumper with %w
IsMongoDumpNotFound(err) ==
  err \in {"ErrMongoDumpNotFound", "wrapped ErrMongoDumpNotFound"}

InitConfig ==
  /\ MainOff
  /\ cd = Off /\ pr = Off /\ zf = Off /\ lb = Off
  /\ \E c \in DumperConfigs :
       nm = [pc |-> "validate", cfg |-> c, lookups |-> <<>>, dumper |-> "nil",
             err |-> "none", tempDirMade |-> FALSE, runs |-> 0]

\* the constructor returns an error and no Dumper
ReturnError(e) == [nm EXCEPT !.pc = "returned", !.dumper = "nil", !.err = e]

\* part_001:600-602 and part_002:310-326  cfg.Validate(); found is what
\* exec.LookPath finds
Validate(found) ==
  /\ nm.pc = "validate"
  /\ nm' = IF RequiredFields(nm.cfg) # "nil"
           THEN ReturnError(RequiredFields(nm.cfg))
           ELSE IF ~found
           THEN [ReturnError("ErrMongoDumpNotFound") EXCEPT !.lookups = Append(nm.lookups, found)]
           ELSE [nm EXCEPT !.pc = "s3client", !.lookups = Append(nm.lookups, found)]
  /\ nmSame

\* part_001:605-608 and part_002:90-133
NewS3Client(ok) ==
  /\ nm.pc = "s3client"
  /\ nm' = IF ok THEN [nm EXCEPT !.pc = "mongodumper"] ELSE ReturnError("s3client")
  /\ nmSame

\* part_001:611-614 and dump.go:26-36  the second exec.LookPath
NewMongoDumper(found) ==
  /\ nm.pc = "mongodumper"
  /\ nm' = IF found
           THEN [nm EXCEPT !.pc = "tempdir", !.lookups = Append(nm.lookups, found)]
           ELSE [ReturnError("wrapped ErrMongoDumpNotFound")
                   EXCEPT !.lookups = Append(nm.lookups, found)]
  /\ nmSame

\* part_001:617-629  os.MkdirAll(cfg.TempDir) and the Dumper
NewDumperReturn(ok) ==
  /\ nm.pc = "tempdir"
  /\ nm' = IF nm.cfg.TempDir # "" /\ ~ok
           THEN ReturnError("mkdir")
           ELSE [nm EXCEPT !.pc = "returned", !.dumper = "Dumper", !.err = "nil",
                           !.tempDirMade = (nm.cfg.TempDir # "")]
  /\ nmSame

\* main.go:155-163  an error of NewDumper is fatal
ConstructionFatal ==
  /\ nm.pc = "returned" /\ nm.err # "nil"
  /\ nm' = [nm EXCEPT !.pc = "exited"]
  /\ nmSame

\* main.go:179-200  with a Dumper, main goes on to the first run
FirstRun ==
  /\ nm.pc = "returned" /\ nm.err = "nil"
  /\ nm' = [nm EXCEPT !.pc = "running", !.runs = 1]
  /\ nmSame

NextConfig ==
  \/ \E found \in BOOLEAN : Validate(found)
  \/ \E ok \in BOOLEAN : NewS3Client(ok)
  \/ \E found \in BOOLEAN : NewMongoDumper(found)
  \/ \E ok \in BOOLEAN : NewDumperReturn(ok)
  \/ ConstructionFatal
  \/ FirstRun

SpecConfig == InitConfig /\ [][NextConfig]_vars

\* the configuration is one Validate must refuse
Incomplete(c) ==
  \/ c.MongoURI = ""
  \/ \E f \in {"S3Endpoint", "S3Bucket", "S3AccessKey", "S3SecretKey"} : c[f] = ""

\* C21: with an empty connection string, an incomplete storage
\* configuration or a dump utility that is not found, NewDumper returns an
\* error and no Dumper, the last error being ErrMongoDumpNotFound, and no
\* run is ever started with such a configuration.
C21_ConfigErrorsAtConstruction ==
  nm.pc \in {"returned", "exited", "running"} =>
    LET notFound == \E i \in 1..Len(nm.lookups) : ~nm.lookups[i]
    IN /\ (Incomplete(nm.cfg) \/ notFound) => (nm.dumper = "nil" /\ nm.err # "nil")
       /\ notFound => IsMongoDumpNotFound(nm.err)
       /\ nm.runs > 0 => (~Incomplete(nm.cfg) /\ ~notFound /\ nm.dumper = "Dumper")
       /\ nm.dumper = "nil" <=> nm.err # "nil"

\* a configuration lacking only the secret key has been refused, and main
\* has exited without a run
C21_Witness ==
  /\ nm.pc = "exited"
  /\ nm.cfg.MongoURI # "" /\ nm.cfg.S3Endpoint # "" /\ nm.cfg.S3Bucket # ""
  /\ nm.cfg.S3AccessKey # "" /\ nm.cfg.S3SecretKey = ""
  /\ nm.err = "s3" /\ nm.dumper = "nil" /\ nm.runs = 0


\* C22 (as claimed): every backup is uploaded under a key
\* {environment}/{date}/{database}-{environment}-{timestamp}.archive, the
\* date being that of a day the run touches.
C22_ArchiveKey ==
  nm.pc = "named" =>
    LET environment == GetValueOrDefault(nm.cfg1.env, "default")
        database == GetValueOrDefault(nm.cfg1.db, "all-databases")
    IN \E day \in 1..Len(Days) :
         nm.run1.key = environment \o "/" \o FormatDate(Days[day]) \o "/" \o database
                         \o "-" \o environment \o "-" \o FormatTimestamp(nm.t1) \o ".archive"


\* C23 (as claimed): CreateDump never reads the captured stdout or stderr
\* text while the goroutine that appends to that buffer can still write to
\* it.
C23_NoBufferRace ==
  cd.pc # "off" =>
    /\ ~cd.racy
    /\ (cd.pc = "done" /\ cd.ret = "err") => cd.outRd = "done"


\* the percentage last logged, as the parser and the reader keep it
LastLogged(r) == IF r.pc = "parser" THEN r.lastPercentage ELSE r.lastLoggedPct

\* a step of the parser or of Read that observed the percentage p
Observes(p) ==
  /\ pr.pc \in {"parser", "reader"}
  /\ pr'.ops = pr.ops + 1
  /\ pr'.observed = p /\ p >= 0

\* C24: lastLogged starts at 0; an observed percentage p is logged if and
\* only if p >= lastLogged + 10 or p = 100; lastLogged becomes p exactly
\* when the entry is logged and is left alone otherwise.
C24_Throttle ==
  /\ pr.pc \in {"parser", "reader"} => (LastLogged(pr) = 0 /\ pr.log = <<>>)
  /\ [][\A p \in 0..1000 :
          Observes(p) =>
            LET due == p >= LastLogged(pr) + 10 \/ p = 100
            IN /\ pr'.log = IF due THEN Append(pr.log, p) ELSE pr.log
               /\ LastLogged(pr') = IF due THEN p ELSE LastLogged(pr)]_vars

\* the parser has logged 50 and then let a 5 and a 50 pass unlogged
C24_Witness ==
  /\ pr.pc = "parser" /\ pr.ops = 3
  /\ pr.log = <<50>> /\ pr.lastPercentage = 50 /\ pr.observed \in {5, 50}

\* C25: a non-empty file read to its end through progressReader, in any
\* split into Reads and without a Seek, has 100 as its last logged entry,
\* and an entry is logged no later than the first Read after which 10% of
\* the bytes have been read.
C25_ReadToEnd ==
  (pr.pc = "reader" /\ pr.seeks = 0) =>
    /\ pr.offset = pr.totalSize =>
         (pr.log # <<>> /\ pr.log[Len(pr.log)] = 100)
    /\ pr.bytesRead * 10 >= pr.totalSize => pr.log # <<>>

\* a 16-byte file has been read in four Reads, the first one below 10%
C25_Witness ==
  /\ pr.pc = "reader" /\ pr.seeks = 0 /\ pr.totalSize = 16
  /\ pr.offset = 16 /\ pr.ops = 4
  /\ pr.log = <<12, 25, 100>>


\* compressFile has met an I/O error and is on its way out
Aborting == zf.pc \in {"closeWriter", "closeFile", "returned"} /\ zf.walkErr

\* C26: at the first I/O error (walk, create, open or write) compressFile
\* processes no further file, returns a non-nil error and leaves the
\* partially written container file in place.
C26_AbortAtFirstError ==
  /\ [](zf.pc # "off" =>
          /\ zf.walkErr => Aborting
          /\ Aborting => zf.exists
          /\ (zf.pc = "returned" /\ zf.walkErr) => zf.ret = "err")
  /\ [][Aborting => (zf'.todo = zf.todo /\ zf'.entries = zf.entries /\ zf'.walkErr)]_vars

\* the first of two files could not be opened: compressFile has returned an
\* error, the second file was never visited, the container file is there
C26_Witness ==
  /\ zf.pc = "returned" /\ zf.ret = "err" /\ zf.walkErr
  /\ Cardinality(Present(zf.tree)) = 2
  /\ Len(zf.todo) >= 1 /\ Len(zf.entries) = 1
  /\ zf.exists


\* C27 (as claimed): after a successful dump the reported original size is
\* the sum of the sizes of the .bson files of the tree and the collection
\* count is their number.
C27_StatsExact ==
  zf.pc \notin {"off", "stats"} =>
    /\ zf.originalSize = SumBson(zf.tree, Len(Candidates))
    /\ zf.collectionCount = CountBson(zf.tree)

\* C27 (amended): when the statistics walk succeeds the reported size and
\* count are those of the .bson files of the tree; when it fails they are
\* the partial sums over the entries visited before the failure, and the
\* run goes on to the Archive stage in both cases.
C27_StatsWhenWalked ==
  zf.pc \notin {"off", "stats"} =>
    /\ ~zf.statsErr =>
         /\ zf.originalSize = SumBson(zf.tree, Len(Candidates))
         /\ zf.collectionCount = CountBson(zf.tree)
    /\ zf.statsErr =>
         /\ zf.originalSize <= SumBson(zf.tree, Len(Candidates))
         /\ zf.collectionCount <= CountBson(zf.tree)
    /\ zf.ret = "none" => zf.pc \in {"create", "walk", "closeWriter", "closeFile"}

\* the walk failed before the second .bson file; the run went through with
\* one collection reported out of two
C27_Witness ==
  /\ zf.pc = "done" /\ zf.statsErr
  /\ CountBson(zf.tree) = 2 /\ zf.collectionCount = 1
  /\ zf.originalSize < SumBson(zf.tree, Len(Candidates))


\* how often stage s has been started in the current run
Starts(s) == Cardinality({i \in 1..Len(stageLog) : stageLog[i] = s})

\* C28: in one call of Dumper.Dump every stage is started at most once and
\* the subprocess is started at most once; after a stage failure no stage
\* is started again until the scheduler begins the next run on a tick.
C28_NoRetry ==
  /\ [](\A s \in {"Dump", "Archive", "Upload", "Cleanup"} : Starts(s) <= 1)
  /\ [][(proc' = "running" /\ proc # "running") => (proc = "none" /\ Starts("Dump") = 1)]_vars
  /\ [][(failed # {} /\ stageLog' # stageLog) =>
          (runsStarted' = runsStarted + 1 /\ ticksReceived' = ticksReceived + 1)]_vars

\* the initial run failed in its Dump stage and the next run, begun on the
\* first tick, has started its own Dump stage
C28_Witness ==
  /\ runsStarted = 2 /\ ticksReceived = 1
  /\ lastOutcome = "err"
  /\ stageLog = <<"Dump">> /\ proc = "running"


\* =========================================================================
\* The error values Dumper.Dump returns
\* =========================================================================
\* an error is the chain of its messages, outermost first, ending in the
\* underlying cause; arg is the path a message was formatted with, or the
\* Path of an *os.PathError, and "" where the message carries none

\* fmt.Errorf(text + ": %w", err), text formatted with arg
Wrap_Flatten(text, arg, err) == <<[text |-> text, arg |-> arg]>>
Wrap(text, arg, err) == <<[text |-> text, arg |-> arg]>> \o err

\* the artifact names of a run (dump.go:244-248, part_001:697-698)
BaseNames == {db \o "-" \o env \o "-T" : db \in {"all-databases", "orders"},
                                         env \in {"default", "staging", "production"}}
ArtifactsOf(base) ==
  [dir |-> "/tmp/" \o base, zip |-> "/tmp/" \o base \o ".zip",
   key |-> "env/D/" \o base \o ".zip"]

\* the files of the dump directory, relative to it
FileNames == {"/a.bson", "/db/u.bson", "/db/u.metadata.json"}

\* the failures of the three stages: where, and with what cause
DumpFailures == {"mkdir", "pipe", "start", "exit status 1", "signal: killed"}
ArchiveFailures == {"zipcreate", "walk", "entry", "open", "write"}
UploadFailures == {"stat", "openzip", "403 Forbidden", "connection reset", "context canceled"}

\* dump.go:48-50, 74-77, 82-84, 142-156  the error CreateDump returns
CreateDumpError(f, art) ==
  IF f = "mkdir"
    THEN Wrap("failed to create output directory", "", <<[text |-> "mkdir", arg |-> art.dir]>>)
  ELSE IF f = "pipe"
    THEN Wrap("failed to set up command output capture", "",
              Wrap("failed to create stdout pipe", "", <<[text |-> "pipe2", arg |-> ""]>>))
  ELSE IF f = "start"
    THEN Wrap("failed to start mongodump", "", <<[text |-> "exec: not found", arg |-> ""]>>)
  ELSE Wrap("mongodump failed - stderr", "", <<[text |-> f, arg |-> ""]>>)

\* part_001:795-859  the error compressFile returns; file is the file the
\* walk function was called on
CompressFileError(f, art, file) ==
  IF f = "zipcreate"
    THEN Wrap("failed to create zip file", "", <<[text |-> "open", arg |-> art.zip]>>)
  ELSE Wrap("failed to walk directory", "",
         IF f = "walk" THEN <<[text |-> "lstat", arg |-> file]>>
         ELSE IF f = "entry"
           THEN Wrap("failed to create zip entry for", file, <<[text |-> "write", arg |-> art.zip]>>)
         ELSE IF f = "open"
           THEN Wrap("failed to open file", file, <<[text |-> "open", arg |-> file]>>)
         ELSE Wrap("failed to write to zip", file, <<[text |-> "write", arg |-> art.zip]>>))

\* part_002:137-193  the error UploadFile returns
UploadFileError(f, art) ==
  IF f = "stat"
    THEN Wrap("failed to get file info", "", <<[text |-> "stat", arg |-> art.zip]>>)
  ELSE IF f = "openzip"
    THEN Wrap("failed to open file for upload", "", <<[text |-> "open", arg |-> art.zip]>>)
  ELSE Wrap("failed to upload to S3", "", <<[text |-> f, arg |-> ""]>>)

\* part_001:648, 701, 744  the message Dumper.Dump puts in front
StageText ==
  [Dump |-> "failed to create MongoDB dump",
   Archive |-> "failed to compress dump directory",
   Upload |-> "failed to upload dump to S3"]

\* the last message of the chain: what errors.Unwrap ends at
Cause(err) == err[Len(err)]

\* zf here is a run of Dumper.Dump reduced to where it fails and what it
\* returns
InitErrors ==
  /\ MainOff
  /\ cd = Off /\ pr = Off /\ nm = Off /\ lb = Off
  /\ \E base \in BaseNames :
       zf = [pc |-> "step1", art |-> ArtifactsOf(base), stage |-> "none",
             failure |-> "none", file |-> "", ret |-> <<>>]

\* a stage fails with error err: Dumper.Dump wraps it and returns
StageFails(stage, f, file, err) ==
  [zf EXCEPT !.pc = "returned", !.stage = stage, !.failure = f, !.file = file,
             !.ret = Wrap(StageText[stage], "", err)]

\* part_001:647-649
Step1(f) ==
  /\ zf.pc = "step1"
  /\ zf' = IF f = "ok" THEN [zf EXCEPT !.pc = "step2"]
           ELSE StageFails("Dump", f, "", CreateDumpError(f, zf.art))
  /\ zfSame

\* part_001:700-702
Step2(f, name) ==
  /\ zf.pc = "step2"
  /\ LET file == zf.art.dir \o name
     IN zf' = IF f = "ok" THEN [zf EXCEPT !.pc = "step3"]
              ELSE StageFails("Archive", f, IF f = "zipcreate" THEN "" ELSE file,
                              CompressFileError(f, zf.art, file))
  /\ zfSame

\* part_001:743-745, and 748-789 when the upload succeeded
Step3(f) ==
  /\ zf.pc = "step3"
  /\ zf' = IF f = "ok" THEN [zf EXCEPT !.pc = "returned"]
           ELSE StageFails("Upload", f, "", UploadFileError(f, zf.art))
  /\ zfSame

NextErrors ==
  \/ \E f \in DumpFailures \cup {"ok"} : Step1(f)
  \/ \E f \in ArchiveFailures \cup {"ok"}, name \in FileNames : Step2(f, name)
  \/ \E f \in UploadFailures \cup {"ok"} : Step3(f)

SpecErrors == InitErrors /\ [][NextErrors]_vars

\* some message of the chain carries a path or the key of the run
NamesArtifact(err) == \E i \in 1..Len(err) : err[i].arg # ""

\* the failures whose cause is an operation on a file
FileFailures ==
  {"mkdir", "zipcreate", "walk", "entry", "open", "write", "stat", "openzip"}

C30_TicksAbsorbed ==
  /\ [](/\ tickCh \in {0, 1}
        /\ ticksReceived + tickCh <= ticksFired
        /\ runsStarted <= 1 + ticksReceived)
  /\ [][ticksFired' = ticksFired + 1 => (tickCh' = 1 /\ ticksReceived' = ticksReceived)]_vars
  /\ [][runsStarted' = runsStarted + 1 =>
          (runsStarted = 0 \/ (tickCh = 1 /\ tickCh' = 0))]_vars

\* two ticks fired before the loop received one: the second was dropped,
\* one run followed back-to-back and the loop waits with no tick pending
C30_Witness ==
  /\ mpc = "select" /\ dpc = "idle"
  /\ ticksFired = 2 /\ ticksReceived = 1 /\ tickCh = 0
  /\ runsStarted = 2


\* ======================================================================
\* Claims about the scheduler after cancellation
\* ======================================================================

\* C31 (as claimed): once the context has been cancelled the scheduler starts
\* no further run: no step invokes Dumper.Dump while ctx is cancelled, also
\* when a tick is pending as the loop reaches the select.
C31_NoRunAfterCancel ==
  [][runsStarted' = runsStarted + 1 => ~ctx]_vars


\* C32: the periodic scheduler blocks until cancellation and then stops:
\* the loop returns only when the context has been cancelled, in periodic
\* mode main leaves in no other way, and once the context is cancelled and
\* the loop is at its select (no run in flight) the loop eventually returns,
\* given a select that is fair between the tick and the cancellation.
C32_BlocksUntilCancel ==
  /\ [](mpc = "shutdown" => ctx)
  /\ [](~IsOneTime(oneTime, interval) => mpc \notin {"exit_ok", "fatal"})
  /\ (ctx /\ mpc = "select") ~> (mpc = "shutdown")

\* the loop has returned on cancellation although a tick was waiting in
\* ticker.C, after it had received every counted tick
C32_Witness ==
  mpc = "shutdown" /\ tickCh = 1 /\ ticksReceived = MaxTicks


\* ======================================================================
\* Claims about the termination of CreateDump
\* ======================================================================

\* a stream of the subprocess is stuck for good: the subprocess still has a
\* line to write to it, the pipe is full and the goroutine that read the
\* pipe has ended
Stuck(rd, todo, pipe) ==
  rd = "done" /\ todo # <<>> /\ Len(pipe) = PipeCap

\* C33 (as claimed): whatever the subprocess writes, a line longer than the
\* scanner's token limit included, the subprocess is never left blocked on
\* a full pipe that no goroutine reads, so that it can exit and CreateDump
\* can return without a cancellation.
C33_NeverBlockedOnPipe ==
  (cd.pc # "off" /\ cd.proc = "running") =>
    /\ ~Stuck(cd.outRd, cd.outTodo, cd.outPipe)
    /\ ~Stuck(cd.errRd, cd.errTodo, cd.errPipe)


\* ======================================================================
\* Claims about the completion of the container
\* ======================================================================

\* C34 (as claimed): compressFile returns nil only when the container is
\* complete: when finalizing the zip writer or closing the target file
\* failed it returns an error, and the Upload stage never starts on a
\* container whose finalization failed.
C34_NilOnlyWhenComplete ==
  /\ (zf.pc = "returned" /\ zf.closeErr) => zf.ret # "nil"
  /\ (zf.pc \in {"upload", "done", "failed"}) => (~zf.closeErr /\ zf.finalized)


\* ======================================================================
\* Claims about progressReader's counter
\* ======================================================================

\* C35 (as claimed): after any sequence of Read and Seek calls bytesRead
\* equals the read offset of the underlying file and lies in 0..totalSize.
C35_CounterIsOffset ==
  pr.pc = "reader" =>
    /\ pr.bytesRead = pr.offset
    /\ 0 <= pr.bytesRead /\ pr.bytesRead <= pr.totalSize


\* =========================================================================
\* Dumper.RestoreBackup and S3Client.DownloadFile
\* =========================================================================
\* largest size of the stored object, in chunks of io.Copy
MaxObject == 2

\* object keys handed to RestoreBackup, as their path elements
RestoreKeys == {<<"default", "a.zip">>, <<"production", "a.zip">>,
                <<"default", "2025", "b.zip">>}

\* the configured TempDir
TempDir == "tmp"

\* filepath.Base: the last element of a path
Base(path) == path[Len(path)]

\* part_001:877  tempFile := filepath.Join(d.config.TempDir, filepath.Base(s3Key))
TempFile(s3Key) == <<TempDir, Base(s3Key)>>

\* part_001:873-877  RestoreBackup is called with a key; files is the set
\* of paths that exist on the local disk
InitRestore ==
  /\ MainOff
  /\ cd = Off /\ pr = Off /\ nm = Off /\ zf = Off
  /\ \E key \in RestoreKeys, size \in 0..MaxObject :
       lb = [pc |-> "create", s3Key |-> key, tempFile |-> TempFile(key),
             files |-> {}, body |-> size, written |-> 0,
             downloadErr |-> "none", removed |-> "none", ret |-> "none"]

\* part_002:217-221  os.Create(localPath)
OsCreate(ok) ==
  /\ lb.pc = "create"
  /\ lb' = IF ok
           THEN [lb EXCEPT !.pc = "get", !.files = @ \cup {lb.tempFile}]
           ELSE [lb EXCEPT !.pc = "downloaded", !.downloadErr = "err"]
  /\ lbSame

\* part_002:224-231  s.client.GetObject: nil, a service error, or the error
\* of a cancelled context
GetObject(res) ==
  /\ lb.pc = "get"
  /\ lb' = IF res = "nil" THEN [lb EXCEPT !.pc = "copy"]
           ELSE [lb EXCEPT !.pc = "downloaded", !.downloadErr = res]
  /\ lbSame

\* part_002:234-237  io.Copy(file, result.Body), one chunk at a time: a
\* chunk arrives and is written, or the read or the write fails
CopyChunk(res) ==
  /\ lb.pc = "copy"
  /\ lb.written < lb.body
  /\ lb' = IF res = "nil" THEN [lb EXCEPT !.written = @ + 1]
           ELSE [lb EXCEPT !.pc = "downloaded", !.downloadErr = res]
  /\ lbSame

\* part_002:234-243  io.Copy reaches the end of the body: DownloadFile
\* returns nil
CopyEnd ==
  /\ lb.pc = "copy"
  /\ lb.written = lb.body
  /\ lb' = [lb EXCEPT !.pc = "downloaded", !.downloadErr = "nil"]
  /\ lbSame

\* part_001:880-882  what RestoreBackup does with the result of DownloadFile:
\* an error is wrapped and returned at once
AfterDownload(err) == IF err # "nil" THEN "restored" ELSE "remove"

\* part_001:880-882  DownloadFile has returned
DownloadReturn ==
  /\ lb.pc = "downloaded"
  /\ lb' = [lb EXCEPT !.pc = AfterDownload(lb.downloadErr),
                      !.ret = IF AfterDownload(lb.downloadErr) = "restored"
                              THEN lb.downloadErr ELSE @]
  /\ lbSame

\* part_001:885-891  os.Remove(tempFile): a failure is logged as a warning;
\* RestoreBackup returns nil
OsRemove(ok) ==
  /\ lb.pc = "remove"
  /\ lb' = [lb EXCEPT !.pc = "restored",
                      !.files = IF ok THEN @ \ {lb.tempFile} ELSE @,
                      !.removed = IF ok THEN "nil" ELSE "err",
                      !.ret = "nil"]
  /\ lbSame

NextRestore ==
  \/ \E ok \in BOOLEAN : OsCreate(ok)
  \/ \E res \in {"nil", "err", "canceled"} : GetObject(res)
  \/ \E res \in {"nil", "err", "canceled"} : CopyChunk(res)
  \/ CopyEnd
  \/ DownloadReturn
  \/ \E ok \in BOOLEAN : OsRemove(ok)

SpecRestore == InitRestore /\ [][NextRestore]_vars

\* C36 (as claimed): when RestoreBackup returns, on whatever path, the file
\* TempDir/basename(s3Key) does not exist, unless its removal failed.
C36_NoTempFileLeft ==
  lb.pc = "restored" =>
    (lb.tempFile \in lb.files => lb.removed = "err")


\* ======================================================================
\* Claims about the artifact names of a run
\* ======================================================================

\* a string starts, or ends, with another
HasPrefix(str, p) == Len(str) >= Len(p) /\ SubSeq(str, 1, Len(p)) = p
HasSuffix(str, p) ==
  Len(str) >= Len(p) /\ SubSeq(str, Len(str) - Len(p) + 1, Len(str)) = p

\* path names the entry called name directly under the directory dir
DirectlyUnder(path, dir, name) ==
  IF dir = "" THEN path = name
  ELSE /\ HasPrefix(path, dir)
       /\ HasSuffix(path, "/" \o name)
       /\ Len(path) <= Len(dir) + 1 + Len(name)

\* the names of a run agree with each other
Consistent(cfg, run) ==
  /\ DirectlyUnder(run.path, cfg.tempDir, run.name)
  /\ run.zip = run.path \o ".zip"
  /\ HasSuffix(run.key, "/" \o run.name \o ".zip")
  /\ ~HasPrefix(run.zip, run.path \o "/")
  /\ run.zip # run.path

\* C37: the artifact names of a run are consistent: the dump directory is
\* TempDir/baseName, the archive is that path plus ".zip", the remote key
\* ends in baseName plus ".zip" with the same baseName, and the archive path
\* lies outside the dump directory, so the walk of the dump directory never
\* meets the container.
C37_NamesConsistent ==
  nm.pc = "named" =>
    /\ Consistent(nm.cfg1, nm.run1)
    /\ Consistent(nm.cfg2, nm.run2)

\* a run with the default names under a TempDir given with a trailing
\* separator has been named
C37_Witness ==
  /\ nm.pc = "named"
  /\ nm.cfg1.tempDir = "/data/" /\ nm.cfg1.env = "" /\ nm.cfg1.db = ""
  /\ nm.t1 = [h |-> 23, mi |-> 59, s |-> 59]
  /\ nm.run1.path = "/data/all-databases-default-2023-04-15T23-59-59Z"
  /\ nm.run1.zip = "/data/all-databases-default-2023-04-15T23-59-59Z.zip"

====
